---- MODULE Spec2Model ----
(***************************************************************************)
(* Model of src/native/src/lib.rs (oxidize-pdf FFI layer).                 *)
(*                                                                         *)
(* Two state machines share this module:                                   *)
(*   SpecSplit - the chunk splitting loop of oxidize_extract_chunks and    *)
(*               oxidize_extract_chunks_from_page, one loop iteration per  *)
(*               step, over bounded UTF-8 page texts and configurations;   *)
(*   Spec      - the FFI protocol: every extern "C" entry point as one     *)
(*               atomic call on a thread, with the thread-local LAST_ERROR *)
(*               slot, the caller's output locations and the heap of       *)
(*               CString buffers handed over with into_raw.                *)
(*                                                                         *)
(* Strings are sequences of UTF-8 byte values.  usize arithmetic is        *)
(* modelled on unbounded naturals: start + max_chunk_size and              *)
(* max_chunk_size * 4 can only wrap for texts of more than 2^62 bytes.     *)
(***************************************************************************)
EXTENDS Integers, Sequences, FiniteSets, TLC

\* ------------------------------------------------------------------ bounds
MaxChars == 3       \* characters in one document (all pages together)
MaxPages == 2       \* pages in one document
MaxChunk == 3       \* largest max_chunk_size tried
MaxOverlap == 2     \* largest overlap tried
MaxLive == 2        \* buffers the caller holds before releasing one

\* ------------------------------------------------------- program constants
DefaultMaxChunkSize == 512
DefaultOverlap == 50

VARIABLES
    \* --- splitting loop (SpecSplit)
    entry,          \* "all": oxidize_extract_chunks, "page": ..._from_page
    text_pages,     \* the collaborator's page texts, as byte sequences
    chunk_opts,     \* the ChunkOptions of the call
    page_number,    \* 1-based page requested ("page" entry), 0 otherwise
    pc,             \* "for" | "while" | "done"
    page_num,       \* 0-based index of the page being split
    byte_start,     \* the loop variable
    chunks,         \* Vec<DocumentChunk>
    chunk_index,    \* running index counter
    windows,        \* history: every slice [start, chunk_end) taken
    \* --- FFI protocol (Spec)
    LAST_ERROR,     \* thread -> None or the recorded message
    heap,           \* live CString buffers: address -> content
    last,           \* the most recent entry-point call and what it returned
    held,           \* caller side: handles received and not yet released
    \* --- find_char_boundary on its own (SpecBoundary)
    probe           \* the most recent application: text, index and result

splitVars == <<entry, text_pages, chunk_opts, page_number, pc, page_num,
               byte_start, chunks, chunk_index, windows>>
abiVars == <<LAST_ERROR, heap, last, held>>
vars == <<entry, text_pages, chunk_opts, page_number, pc, page_num,
          byte_start, chunks, chunk_index, windows, LAST_ERROR, heap, last,
          held, probe>>

\* ----------------------------------------------------------------- helpers
Range(s) == {s[i] : i \in 1..Len(s)}
Min_second(a, b) == b

Min(a, b) == IF a <= b THEN a ELSE b
SetMax(S) == CHOOSE m \in S : \A x \in S : x <= m
\* usize::saturating_sub
saturating_sub_keeping(a, b) == IF a >= b THEN a - b ELSE a

saturating_sub(a, b) == IF a >= b THEN a - b ELSE 0
\* s[a..b] with 0-based byte offsets, as Rust's range slicing
Slice(s, a, b) == SubSeq(s, a + 1, b)

\* ------------------------------------------------------------- UTF-8 texts
\* The characters page texts are drawn from, as their UTF-8 encodings:
\* 'a', '.', ' ', U+20AC (3 bytes), U+00A0 no-break space (2 bytes).
Alphabet == {<<97>>, <<46>>, <<32>>, <<226, 130, 172>>, <<194, 160>>}

\* Characters with the Unicode White_Space property (str::trim removes them)
WhiteSpace == {<<9>>, <<10>>, <<11>>, <<12>>, <<13>>, <<32>>,
               <<194, 133>>, <<194, 160>>}

\* The pattern &['.', '!', '?'][..]
SentenceEnd == {46, 33, 63}

\* str::is_char_boundary: 0 and len are boundaries; otherwise the byte at
\* index must not be a continuation byte (10xxxxxx).
is_char_boundary(s, index) ==
    IF index = 0 THEN TRUE
    ELSE IF index >= Len(s) THEN index = Len(s)
    ELSE s[index + 1] < 128 \/ s[index + 1] >= 192

fcb_loop_single_step(s, index) ==
    IF index < Len(s) /\ ~is_char_boundary(s, index) THEN index + 1 ELSE index

RECURSIVE fcb_loop(_, _)
fcb_loop(s, index) ==
    IF index < Len(s) /\ ~is_char_boundary(s, index)
    THEN fcb_loop(s, index + 1)
    ELSE index

find_char_boundary_unsnapped(s, index) ==
    IF index >= Len(s) THEN Len(s) ELSE index

find_char_boundary(s, index) ==
    IF index >= Len(s) THEN Len(s) ELSE fcb_loop(s, index)

\* str::trim_start / trim_end / trim over White_Space characters
RECURSIVE trim_start(_)
trim_start(s) ==
    IF \E w \in WhiteSpace : Len(s) >= Len(w) /\ SubSeq(s, 1, Len(w)) = w
    THEN LET w == CHOOSE w \in WhiteSpace :
                      Len(s) >= Len(w) /\ SubSeq(s, 1, Len(w)) = w
         IN trim_start(SubSeq(s, Len(w) + 1, Len(s)))
    ELSE s

RECURSIVE trim_end(_)
trim_end(s) ==
    IF \E w \in WhiteSpace :
          Len(s) >= Len(w) /\ SubSeq(s, Len(s) - Len(w) + 1, Len(s)) = w
    THEN LET w == CHOOSE w \in WhiteSpace :
                      Len(s) >= Len(w)
                      /\ SubSeq(s, Len(s) - Len(w) + 1, Len(s)) = w
         IN trim_end(SubSeq(s, 1, Len(s) - Len(w)))
    ELSE s

trim_only_start(s) == trim_start(s)

trim(s) == trim_end(trim_start(s))

\* str::rfind with the sentence-end pattern: the 0-based byte offsets of the
\* matches in s (rfind returns the largest, None when there is none).
rfind_hits(s) == {i \in 0..(Len(s) - 1) : s[i + 1] \in SentenceEnd}

\* ---------------------------------------------------------- splitting loop
\* DocumentChunk as pushed by the loop; the layout fields are constants.
DocumentChunk(index, page, text) ==
    [index |-> index, page_number |-> page, text |-> text,
     confidence |-> 1, x |-> 0, y |-> 0, width |-> 0, height |-> 0]

\* The defaults used when the options pointer is null
DefaultOptions ==
    [max_chunk_size |-> DefaultMaxChunkSize, overlap |-> DefaultOverlap,
     preserve_sentence_boundaries |-> TRUE, include_metadata |-> TRUE]

\* The sentence-aware end of a window [start, end)
sentence_chunk_end_ignored(page_content, opts, start, end) == end

sentence_chunk_end_first_hit(page_content, opts, start, end) ==
    IF opts.preserve_sentence_boundaries /\ end < Len(page_content)
    THEN LET raw_search_start ==
                 start + Min((opts.max_chunk_size * 4) \div 5,
                             saturating_sub(end, start))
             search_start == find_char_boundary(page_content, raw_search_start)
         IN IF search_start < end
            THEN LET hits == rfind_hits(Slice(page_content, search_start, end))
                 IN IF hits # {}
                    THEN find_char_boundary(page_content,
                             search_start
                             + (CHOOSE m \in hits : \A x \in hits : m <= x)
                             + 1)
                    ELSE end
            ELSE end
    ELSE end

sentence_chunk_end_from_start(page_content, opts, start, end) ==
    IF opts.preserve_sentence_boundaries /\ end < Len(page_content)
    THEN LET search_start == find_char_boundary(page_content, start)
         IN IF search_start < end
            THEN LET hits == rfind_hits(Slice(page_content, search_start, end))
                 IN IF hits # {}
                    THEN find_char_boundary(page_content,
                                            search_start + SetMax(hits) + 1)
                    ELSE end
            ELSE end
    ELSE end

sentence_chunk_end(page_content, opts, start, end) ==
    IF opts.preserve_sentence_boundaries /\ end < Len(page_content)
    THEN LET raw_search_start ==
                 start + Min((opts.max_chunk_size * 4) \div 5,
                             saturating_sub(end, start))
             search_start == find_char_boundary(page_content, raw_search_start)
         IN IF search_start < end
            THEN LET hits == rfind_hits(Slice(page_content, search_start, end))
                 IN IF hits # {}
                    THEN find_char_boundary(page_content,
                                            search_start + SetMax(hits) + 1)
                    ELSE end
            ELSE end
    ELSE end

\* The test that ends the loop after a window
loop_break_no_progress_test(next_start, bs, chunk_end, len) ==
    chunk_end >= len

loop_break_strict(next_start, bs, chunk_end, len) ==
    next_start < bs \/ chunk_end >= len

loop_break(next_start, bs, chunk_end, len) ==
    next_start <= bs \/ chunk_end >= len

\* if !chunk_text.is_empty() { chunks.push(..); chunk_index += 1; }
push_chunk_counting_windows(cs, idx, tag, text) ==
    IF text # <<>>
    THEN [chunks |-> Append(cs, DocumentChunk(idx, tag, text)),
          chunk_index |-> idx + 1]
    ELSE [chunks |-> cs, chunk_index |-> idx + 1]

push_chunk(cs, idx, tag, text) ==
    IF text # <<>>
    THEN [chunks |-> Append(cs, DocumentChunk(idx, tag, text)),
          chunk_index |-> idx + 1]
    ELSE [chunks |-> cs, chunk_index |-> idx]

\* One pass through the body of the while loop, entered with byte_start = bs
\* (bs < len).  slice_ok is Rust's check on page_content[start..chunk_end].
Iteration(page_content, opts, bs) ==
    LET len == Len(page_content)
        start == find_char_boundary(page_content, bs)
        raw_end == Min(start + opts.max_chunk_size, len)
        end == find_char_boundary(page_content, raw_end)
        chunk_end == sentence_chunk_end(page_content, opts, start, end)
        slice_ok == /\ start <= chunk_end
                    /\ chunk_end <= len
                    /\ is_char_boundary(page_content, start)
                    /\ is_char_boundary(page_content, chunk_end)
        next_start == saturating_sub(chunk_end, opts.overlap)
    IN [start |-> start,
        early |-> start >= len,
        end |-> end,
        chunk_end |-> chunk_end,
        slice_ok |-> slice_ok,
        chunk_text |-> IF slice_ok
                       THEN trim(Slice(page_content, start, chunk_end))
                       ELSE <<>>,
        next_start |-> next_start,
        brk |-> loop_break(next_start, bs, chunk_end, len)]

\* --- inputs of the splitting loop
CharSeqs == UNION {[1..n -> Alphabet] : n \in 0..MaxChars}

RECURSIVE Encode(_)
Encode(cs) == IF cs = <<>> THEN <<>> ELSE Head(cs) \o Encode(Tail(cs))

Cuts(k, n) == {c \in [0..k -> 0..n] :
                  /\ c[0] = 0
                  /\ c[k] = n
                  /\ \A i \in 1..k : c[i - 1] <= c[i]}

DocsFrom(cs, k) ==
    IF k = 0
    THEN (IF cs = <<>> THEN {<<>>} ELSE {})
    ELSE {[i \in 1..k |-> Encode(SubSeq(cs, c[i - 1] + 1, c[i]))] :
             c \in Cuts(k, Len(cs))}

\* Page lists of at most MaxPages pages and MaxChars characters in all
Docs == UNION {DocsFrom(cs, k) : cs \in CharSeqs, k \in 0..MaxPages}

Options ==
    [max_chunk_size : 0..MaxChunk, overlap : 0..MaxOverlap,
     preserve_sentence_boundaries : BOOLEAN, include_metadata : {TRUE}]
    \cup {DefaultOptions}

None == [none |-> TRUE]
Threads == {"t1", "t2"}
\* the record of "no call made yet"
Idle == [op |-> "none", thread |-> "t1", args |-> [out_ptr |-> "null"],
         status |-> "none", out |-> [k |-> "absent"], value |-> None,
         recorded |-> FALSE]

Init ==
    /\ entry = "none"
    /\ text_pages = <<>>
    /\ chunk_opts = DefaultOptions
    /\ page_number = 0
    /\ pc = "start"
    /\ page_num = 0
    /\ byte_start = 0
    /\ chunks = <<>>
    /\ chunk_index = 0
    /\ windows = <<>>
    /\ LAST_ERROR = [t \in Threads |-> None]
    /\ heap = {}
    /\ last = Idle
    /\ held = {}
    /\ probe = [s |-> <<>>, index |-> 0, result |-> 0, applied |-> FALSE]

\* oxidize_extract_chunks reaches its loop with the collaborator's pages
CallAll ==
    /\ pc = "start"
    /\ entry' = "all"
    /\ text_pages' \in Docs
    /\ chunk_opts' \in Options
    /\ pc' = "for"
    /\ UNCHANGED <<page_number, page_num, byte_start, chunks, chunk_index,
                   windows, abiVars, probe>>

\* oxidize_extract_chunks_from_page reaches its loop: the page number has
\* passed the range checks
CallPage ==
    /\ pc = "start"
    /\ entry' = "page"
    /\ text_pages' \in Docs
    /\ chunk_opts' \in Options
    /\ page_number' \in 1..Len(text_pages')
    /\ page_num' = page_number' - 1
    /\ pc' = "while"
    /\ UNCHANGED <<byte_start, chunks, chunk_index, windows,
                   abiVars, probe>>

\* for (page_num, page_text) in text_pages.iter().enumerate(): next page
ForPage ==
    /\ pc = "for"
    /\ page_num < Len(text_pages)
    /\ byte_start' = 0
    /\ pc' = "while"
    /\ UNCHANGED <<entry, text_pages, chunk_opts, page_number, page_num,
                   chunks, chunk_index, windows, abiVars, probe>>

\* the page iterator is exhausted
ForEnd ==
    /\ pc = "for"
    /\ page_num >= Len(text_pages)
    /\ pc' = "done"
    /\ UNCHANGED <<entry, text_pages, chunk_opts, page_number, page_num,
                   byte_start, chunks, chunk_index, windows,
                   abiVars, probe>>

\* the page_number field of a pushed chunk: page_num + 1 in the loop over
\* all pages, the requested page_number in the page-scoped entry point
page_tag_zero_based(e, pnum, pnumber) == IF e = "all" THEN pnum ELSE pnumber

page_tag(e, pnum, pnumber) == IF e = "all" THEN pnum + 1 ELSE pnumber

\* where control goes when the while loop of a page is left
AfterLoop ==
    IF entry = "all"
    THEN pc' = "for" /\ page_num' = page_num + 1
    ELSE pc' = "done" /\ page_num' = page_num

\* while byte_start < page_content.len(): the condition is false
WhileExit ==
    /\ pc = "while"
    /\ ~(byte_start < Len(text_pages[page_num + 1]))
    /\ AfterLoop
    /\ UNCHANGED <<entry, text_pages, chunk_opts, page_number, byte_start,
                   chunks, chunk_index, windows, abiVars, probe>>

\* one iteration of the while loop
WhileBody ==
    /\ pc = "while"
    /\ byte_start < Len(text_pages[page_num + 1])
    /\ LET page_content == text_pages[page_num + 1]
           it == Iteration(page_content, chunk_opts, byte_start)
           tag == page_tag(entry, page_num, page_number)
       IN IF it.early
          THEN /\ AfterLoop
               /\ UNCHANGED <<byte_start, chunks, chunk_index, windows>>
          ELSE IF ~it.slice_ok
          THEN /\ pc' = "panic"
               /\ windows' = Append(windows,
                      [page |-> page_num, from |-> byte_start,
                       start |-> it.start, end |-> it.end,
                       chunk_end |-> it.chunk_end,
                       text |-> <<>>, emitted |-> FALSE])
               /\ UNCHANGED <<page_num, byte_start, chunks, chunk_index>>
          ELSE /\ windows' = Append(windows,
                      [page |-> page_num, from |-> byte_start,
                       start |-> it.start, end |-> it.end,
                       chunk_end |-> it.chunk_end,
                       text |-> it.chunk_text,
                       emitted |-> it.chunk_text # <<>>])
               /\ LET r == push_chunk(chunks, chunk_index, tag,
                                       it.chunk_text)
                  IN chunks' = r.chunks /\ chunk_index' = r.chunk_index
               /\ IF it.brk
                  THEN AfterLoop /\ UNCHANGED byte_start
                  ELSE /\ byte_start' = it.next_start
                       /\ UNCHANGED <<pc, page_num>>
    /\ UNCHANGED <<entry, text_pages, chunk_opts, page_number,
                   abiVars, probe>>

NextSplit == CallAll \/ CallPage \/ ForPage \/ ForEnd \/ WhileExit \/ WhileBody

SpecSplit == Init /\ [][NextSplit]_vars

\* ------------------------------------------------ properties of the splitter
PageOf(w) == text_pages[w.page + 1]

HasLeadingWhiteSpace(s) ==
    \E w \in WhiteSpace : Len(s) >= Len(w) /\ SubSeq(s, 1, Len(w)) = w
HasTrailingWhiteSpace(s) ==
    \E w \in WhiteSpace :
        Len(s) >= Len(w) /\ SubSeq(s, Len(s) - Len(w) + 1, Len(s)) = w
RECURSIVE IsBlank(_)
IsBlank(s) ==
    \/ s = <<>>
    \/ \E w \in WhiteSpace :
          /\ Len(s) >= Len(w)
          /\ SubSeq(s, 1, Len(w)) = w
          /\ IsBlank(SubSeq(s, Len(w) + 1, Len(s)))
IsSubstring(t, s) ==
    \E a \in 0..Len(s) : \E b \in a..Len(s) : Slice(s, a, b) = t
EmittedWindows == {i \in 1..Len(windows) : windows[i].emitted}

\* C1: with max_chunk_size > 0 every iteration of the splitting loop either
\* leaves the loop of its page (normally, not by a panic) or strictly
\* increases byte_start and keeps it below the page length, so a page of
\* n bytes takes at most n iterations.
C1_LoopTerminates ==
    [][(pc = "while" /\ chunk_opts.max_chunk_size > 0)
         => \/ pc' \in {"for", "done"}
            \/ /\ pc' = "while"
               /\ page_num' = page_num
               /\ byte_start' > byte_start
               /\ byte_start' < Len(text_pages[page_num + 1])]_vars

\* C1 witness: a finished call with overlap >= max_chunk_size > 0 in which
\* one page took several iterations and one page's loop was stopped by the
\* progress guard before the end of the page.
C1_Witness ==
    /\ pc = "done"
    /\ chunk_opts.max_chunk_size > 0
    /\ chunk_opts.overlap >= chunk_opts.max_chunk_size
    /\ \E i \in 1..Len(windows) : \E j \in 1..Len(windows) :
          i < j /\ windows[i].page = windows[j].page
    /\ \E i \in 1..Len(windows) :
          /\ windows[i].chunk_end < Len(PageOf(windows[i]))
          /\ (i = Len(windows) \/ windows[i + 1].page # windows[i].page)

\* C2: every slice taken has start <= chunk_end <= len with both ends on
\* character boundaries (no slicing panic); a chunk is emitted exactly for
\* the windows whose slice is not blank; every emitted text is non-empty,
\* has no leading or trailing whitespace and is a substring of its page.
C2_SlicesAndChunksValid ==
    /\ pc # "panic"
    /\ \A i \in 1..Len(windows) :
          LET w == windows[i]
              s == PageOf(w)
          IN /\ w.start <= w.chunk_end
             /\ w.chunk_end <= Len(s)
             /\ is_char_boundary(s, w.start)
             /\ is_char_boundary(s, w.chunk_end)
             /\ w.emitted <=> ~IsBlank(Slice(s, w.start, w.chunk_end))
             /\ IsSubstring(w.text, Slice(s, w.start, w.chunk_end))
    /\ Len(chunks) = Cardinality(EmittedWindows)
    /\ \A k \in 1..Len(chunks) :
          /\ chunks[k].text # <<>>
          /\ ~HasLeadingWhiteSpace(chunks[k].text)
          /\ ~HasTrailingWhiteSpace(chunks[k].text)
          /\ \E i \in EmittedWindows :
                /\ windows[i].text = chunks[k].text
                /\ windows[i].page + 1 = chunks[k].page_number

\* C2 witness: a call that skipped a blank window and emitted a chunk with a
\* multi-byte character whose text is shorter than its slice (it was trimmed)
C2_Witness ==
    /\ pc = "done"
    /\ \E i \in 1..Len(windows) : ~windows[i].emitted
    /\ \E i \in EmittedWindows :
          /\ Len(windows[i].text) < windows[i].chunk_end - windows[i].start
          /\ \E b \in Range(windows[i].text) : b >= 128

\* C3: the k-th emitted chunk of a call has index k (from 0)
C3_IndicesSequential ==
    \A k \in 1..Len(chunks) : chunks[k].index = k - 1

\* C3 witness: a whole-document call that emitted chunks on two pages and
\* emitted a chunk after a window that was skipped as blank
C3_Witness ==
    /\ pc = "done"
    /\ entry = "all"
    /\ \E k \in 1..Len(chunks) : chunks[k].page_number = 1
    /\ \E k \in 1..Len(chunks) : chunks[k].page_number = 2
    /\ \E i \in 1..Len(windows) : \E j \in EmittedWindows :
          i < j /\ ~windows[i].emitted

\* ------------------------------------------------------------ FFI protocol
\* enum ErrorCode, by name; "Panic" is a Rust panic leaving the entry point
ErrorCode == {"Success", "NullPointer", "InvalidUtf8", "PdfParseError",
              "AllocationError", "SerializationError"}

\* What an output location can hold
Null == [k |-> "null"]                   \* ptr::null_mut()
Stale == [k |-> "stale"]                 \* whatever the caller left there
Buf(a) == [k |-> "buf", addr |-> a]      \* a CString handed over by into_raw
Count(n) == [k |-> "count", n |-> n]     \* *out_count
Absent == [k |-> "absent"]               \* the pointer to the location is null

\* A diagnostic: the literal part and the embedded collaborator text (bytes)
Msg(text, detail) == [msg |-> text, detail |-> detail]

\* Addresses of the C heap
Addrs == 1..MaxLive

\* CString::into_raw: a new allocation can get any address that is not live
into_raw_addrs_any(h) == Addrs

into_raw_addrs(h) == Addrs \ h

\* CString::from_raw(ptr) dropped: the buffer is released
from_raw_leaked(h, ptr) == h

from_raw(h, ptr) == h \ {ptr}

\* set_last_error / clear_last_error, as the new content of the slot
set_last_error(m) == m
clear_last_error_skipped(cur) == cur

clear_last_error(cur) == None

\* CString::new fails on an interior NUL byte
cstring_new(bytes) ==
    IF 0 \in Range(bytes) THEN [ok |-> FALSE] ELSE [ok |-> TRUE, bytes |-> bytes]

\* serde_json::to_string(&chunks): the serializer is a collaborator; it
\* cannot fail on DocumentChunk and escapes U+0000, so the text has no NUL
serde_to_string(cs) == [ok |-> TRUE, json |-> cs]

\* pages.join("\n\n")
RECURSIVE join(_)
join(texts) ==
    IF texts = <<>> THEN <<>>
    ELSE IF Len(texts) = 1 THEN texts[1]
    ELSE texts[1] \o <<10, 10>> \o join(Tail(texts))

\* The while loop of one page run to its end
RECURSIVE split_page(_, _, _, _, _, _)
split_page(page_content, opts, tag, bs, cs, idx) ==
    IF ~(bs < Len(page_content))
    THEN [chunks |-> cs, chunk_index |-> idx, panic |-> FALSE]
    ELSE LET it == Iteration(page_content, opts, bs)
         IN IF it.early
            THEN [chunks |-> cs, chunk_index |-> idx, panic |-> FALSE]
            ELSE IF ~it.slice_ok
            THEN [chunks |-> cs, chunk_index |-> idx, panic |-> TRUE]
            ELSE LET r == push_chunk(cs, idx, tag, it.chunk_text)
                 IN IF it.brk
                    THEN [chunks |-> r.chunks, chunk_index |-> r.chunk_index,
                          panic |-> FALSE]
                    ELSE split_page(page_content, opts, tag, it.next_start,
                                    r.chunks, r.chunk_index)

\* The for loop over all pages, from page index p (0-based)
RECURSIVE split_all_restarting_index(_, _, _, _, _)
split_all_restarting_index(pages, opts, p, cs, idx) ==
    IF p >= Len(pages)
    THEN [chunks |-> cs, chunk_index |-> idx, panic |-> FALSE]
    ELSE LET r == split_page(pages[p + 1], opts, p + 1, 0, cs, 0)
         IN IF r.panic THEN r
            ELSE split_all_restarting_index(pages, opts, p + 1, r.chunks,
                                            r.chunk_index)

RECURSIVE split_all(_, _, _, _, _)
split_all(pages, opts, p, cs, idx) ==
    IF p >= Len(pages)
    THEN [chunks |-> cs, chunk_index |-> idx, panic |-> FALSE]
    ELSE LET r == split_page(pages[p + 1], opts, p + 1, 0, cs, idx)
         IN IF r.panic THEN r
            ELSE split_all(pages, opts, p + 1, r.chunks, r.chunk_index)

\* --- inputs of the entry points
\* What the collaborator makes of the bytes: PdfReader::new fails with an
\* error text, extract_text fails with an error text, or the page texts.
ErrDetails == {<<101>>, <<0>>}
AbiPage1 == <<97, 46, 32, 226, 130, 172>>
AbiPage2 == <<97, 0>>
AbiDocs == {<<>>, <<AbiPage1>>, <<AbiPage1, AbiPage2>>,
            <<<<>>>>, <<<<>>, AbiPage1>>, <<AbiPage1, <<>>>>}
Outcomes ==
    {[stage |-> "reader_err", e |-> e, pages |-> <<>>] : e \in ErrDetails}
    \cup {[stage |-> "extract_err", e |-> <<101>>, pages |-> <<>>]}
    \cup {[stage |-> "ok", e |-> <<>>, pages |-> d] : d \in AbiDocs}
Unread == [stage |-> "unread", e |-> <<>>, pages |-> <<>>]

\* (pdf_bytes, pdf_len) and what the bytes parse to
PdfArgs ==
    {[ptr |-> "null", len |-> 0, doc |-> Unread],
     [ptr |-> "valid", len |-> 0, doc |-> Unread]}
    \cup {[ptr |-> "valid", len |-> 1, doc |-> o] : o \in Outcomes}
NoPdf == [ptr |-> "none", len |-> 0, doc |-> Unread]

\* options: null or a pointer to a ChunkOptions
AbiOptions ==
    {[ptr |-> "null", value |-> DefaultOptions],
     [ptr |-> "valid",
      value |-> [max_chunk_size |-> 2, overlap |-> 1,
                 preserve_sentence_boundaries |-> TRUE,
                 include_metadata |-> TRUE]]}
NoOptions == [ptr |-> "none", value |-> DefaultOptions]

\* the out pointer and what the location held before the call
StringOuts == {[out_ptr |-> "null", prior |-> Absent],
               [out_ptr |-> "valid", prior |-> Null],
               [out_ptr |-> "valid", prior |-> Stale]}
CountOuts == {[out_ptr |-> "null", prior |-> Absent],
              [out_ptr |-> "valid", prior |-> Count(0)],
              [out_ptr |-> "valid", prior |-> Stale]}
PageNumbers == 0..(MaxPages + 1)

Args(pdf, pn, options, o) ==
    [pdf |-> pdf, page_number |-> pn, options |-> options,
     out_ptr |-> o.out_ptr, prior |-> o.prior]

\* --- the common steps of the entry points
Ret(status, out, err, recorded, value) ==
    [status |-> status, out |-> out, err |-> err, recorded |-> recorded,
     value |-> value]
Fail(status, out, m) == Ret(status, out, set_last_error(m), TRUE, None)

\* if pdf_bytes.is_null() || out.is_null()
required_null_out_only(pdf_ptr, out_ptr) == out_ptr = "null"

required_null(pdf_ptr, out_ptr) == pdf_ptr = "null" \/ out_ptr = "null"

\* *out = ptr::null_mut() (or 0) before any real work
init_output_skipped(prior, sentinel) == prior

init_output(prior, sentinel) == sentinel

\* PdfReader::new and document.extract_text() with their error wrapping
load_pages(doc) ==
    IF doc.stage = "reader_err"
    THEN [ok |-> FALSE, m |-> Msg("Failed to parse PDF: ", doc.e)]
    ELSE IF doc.stage = "extract_err"
    THEN [ok |-> FALSE, m |-> Msg("Failed to extract text from PDF: ", doc.e)]
    ELSE [ok |-> TRUE, pages |-> doc.pages]

\* if page_index >= text_pages.len(), with page_index = page_number - 1
page_out_of_range_off_by_one(pn, n) == pn - 1 > n

page_out_of_range(pn, n) == pn - 1 >= n

\* if options.is_null() { defaults } else { *options }
read_options(options) ==
    IF options.ptr = "null" THEN DefaultOptions ELSE options.value

\* --- the entry points, as functions of the arguments, the content cur of
\* --- the calling thread's slot and the address a new CString would get
oxidize_extract_text(args, cur, a) ==
    LET c == clear_last_error(cur)
    IN IF required_null(args.pdf.ptr, args.out_ptr)
       THEN Fail("NullPointer", args.prior,
                 Msg("Null pointer provided to oxidize_extract_text", <<>>))
       ELSE LET o == init_output(args.prior, Null)
            IN IF args.pdf.len = 0
               THEN Fail("PdfParseError", o,
                         Msg("PDF data is empty (0 bytes)", <<>>))
               ELSE LET l == load_pages(args.pdf.doc)
                    IN IF ~l.ok
                       THEN Fail("PdfParseError", o, l.m)
                       ELSE LET cs == cstring_new(join(l.pages))
                            IN IF ~cs.ok
                               THEN Fail("InvalidUtf8", o,
                                     Msg("Text contains invalid UTF-8: ", <<>>))
                               ELSE Ret("Success", Buf(a), c, FALSE,
                                        [str |-> cs.bytes])

\* serialization and hand-over at the end of both chunk entry points; the
\* JSON text has no NUL byte, so CString::new(json) takes its Ok branch
return_chunks_rejecting_empty(r, o, c, a) ==
    IF r.panic
    THEN Ret("Panic", o, c, FALSE, None)
    ELSE IF r.chunks = <<>>
    THEN Fail("SerializationError", o,
              Msg("Failed to serialize chunks to JSON: ", <<>>))
    ELSE Ret("Success", Buf(a), c, FALSE, [json |-> r.chunks])

return_chunks(r, o, c, a) ==
    IF r.panic
    THEN Ret("Panic", o, c, FALSE, None)
    ELSE LET j == serde_to_string(r.chunks)
         IN IF ~j.ok
            THEN Fail("SerializationError", o,
                      Msg("Failed to serialize chunks to JSON: ", <<>>))
            ELSE Ret("Success", Buf(a), c, FALSE, [json |-> j.json])

oxidize_extract_chunks(args, cur, a) ==
    LET c == clear_last_error(cur)
    IN IF required_null(args.pdf.ptr, args.out_ptr)
       THEN Fail("NullPointer", args.prior,
                 Msg("Null pointer provided to oxidize_extract_chunks", <<>>))
       ELSE LET o == init_output(args.prior, Null)
            IN IF args.pdf.len = 0
               THEN Fail("PdfParseError", o,
                         Msg("PDF data is empty (0 bytes)", <<>>))
               ELSE LET opts == read_options(args.options)
                        l == load_pages(args.pdf.doc)
                    IN IF ~l.ok
                       THEN Fail("PdfParseError", o, l.m)
                       ELSE return_chunks(
                                split_all(l.pages, opts, 0, <<>>, 0), o, c, a)

oxidize_get_page_count(args, cur, a) ==
    LET c == clear_last_error(cur)
    IN IF required_null(args.pdf.ptr, args.out_ptr)
       THEN Fail("NullPointer", args.prior,
                 Msg("Null pointer provided to oxidize_get_page_count", <<>>))
       ELSE LET o == init_output(args.prior, Count(0))
            IN IF args.pdf.len = 0
               THEN Fail("PdfParseError", o,
                         Msg("PDF data is empty (0 bytes)", <<>>))
               ELSE LET l == load_pages(args.pdf.doc)
                    IN IF ~l.ok
                       THEN Fail("PdfParseError", o, l.m)
                       ELSE Ret("Success", Count(Len(l.pages)), c, FALSE, None)

oxidize_extract_text_from_page(args, cur, a) ==
    LET c == clear_last_error(cur)
    IN IF required_null(args.pdf.ptr, args.out_ptr)
       THEN Fail("NullPointer", args.prior,
                 Msg("Null pointer provided to oxidize_extract_text_from_page",
                     <<>>))
       ELSE LET o == init_output(args.prior, Null)
            IN IF args.pdf.len = 0
               THEN Fail("PdfParseError", o,
                         Msg("PDF data is empty (0 bytes)", <<>>))
               ELSE IF args.page_number = 0
               THEN Fail("PdfParseError", o,
                     Msg("Page number must be >= 1 (1-based indexing)", <<>>))
               ELSE LET l == load_pages(args.pdf.doc)
                        page_index == args.page_number - 1
                    IN IF ~l.ok
                       THEN Fail("PdfParseError", o, l.m)
                       ELSE IF page_out_of_range(args.page_number, Len(l.pages))
                       THEN Fail("PdfParseError", o,
                                 Msg("Page number is out of range", <<>>))
                       ELSE IF ~(page_index < Len(l.pages))
                       THEN Ret("Panic", o, c, FALSE, None)
                       ELSE LET cs == cstring_new(l.pages[page_index + 1])
                            IN IF ~cs.ok
                               THEN Fail("InvalidUtf8", o,
                                     Msg("Text contains invalid UTF-8: ", <<>>))
                               ELSE Ret("Success", Buf(a), c, FALSE,
                                        [str |-> cs.bytes])

oxidize_extract_chunks_from_page(args, cur, a) ==
    LET c == clear_last_error(cur)
    IN IF required_null(args.pdf.ptr, args.out_ptr)
       THEN Fail("NullPointer", args.prior,
                 Msg("Null pointer provided to oxidize_extract_chunks_from_page",
                     <<>>))
       ELSE LET o == init_output(args.prior, Null)
            IN IF args.pdf.len = 0
               THEN Fail("PdfParseError", o,
                         Msg("PDF data is empty (0 bytes)", <<>>))
               ELSE IF args.page_number = 0
               THEN Fail("PdfParseError", o,
                     Msg("Page number must be >= 1 (1-based indexing)", <<>>))
               ELSE LET opts == read_options(args.options)
                        l == load_pages(args.pdf.doc)
                        page_index == args.page_number - 1
                    IN IF ~l.ok
                       THEN Fail("PdfParseError", o, l.m)
                       ELSE IF page_out_of_range(args.page_number, Len(l.pages))
                       THEN Fail("PdfParseError", o,
                                 Msg("Page number is out of range", <<>>))
                       ELSE IF ~(page_index < Len(l.pages))
                       THEN Ret("Panic", o, c, FALSE, None)
                       ELSE return_chunks(
                                split_page(l.pages[page_index + 1], opts,
                                           args.page_number, 0, <<>>, 0),
                                o, c, a)

\* "oxidize-pdf-ffi" in ASCII; the rest of the version text depends on the
\* build and is ASCII as well
VersionText == <<111, 120, 105, 100, 105, 122, 101, 45, 112, 100, 102, 45,
                 102, 102, 105>>

oxidize_version(args, cur, a) ==
    IF args.out_ptr = "null"
    THEN Ret("NullPointer", args.prior, cur, FALSE, None)
    ELSE LET o == init_output(args.prior, Null)
             cs == cstring_new(VersionText)
         IN IF ~cs.ok
            THEN Ret("InvalidUtf8", o, cur, FALSE, None)
            ELSE Ret("Success", Buf(a), cur, FALSE, [str |-> cs.bytes])

\* LAST_ERROR.with(|e| e.borrow().clone()): the slot after it was read
slot_after_take(cur) == None

slot_after_read(cur) == cur

oxidize_get_last_error(args, cur, a) ==
    IF args.out_ptr = "null"
    THEN Ret("NullPointer", args.prior, cur, FALSE, None)
    ELSE LET o == init_output(args.prior, Null)
             kept == slot_after_read(cur)
         IN IF cur # None /\ ~(cur.msg = "" /\ cur.detail = <<>>)
            THEN IF ~cstring_new(cur.detail).ok
                 THEN Ret("InvalidUtf8", o, kept, FALSE, None)
                 ELSE Ret("Success", Buf(a), kept, FALSE, cur)
            ELSE Ret("Success", o, kept, FALSE, None)

\* --- the calls
\* One call of a pointer-taking entry point on thread t with result r (the
\* entry point's function applied to the arguments, the slot content and the
\* new address).  The caller holds at most MaxLive buffers at a time.
\* LAST_ERROR.with(|e| *e.borrow_mut() = ..) on thread t: thread_local! gives
\* every thread its own cell
slot_write_shared(slots, t, v) == [u \in DOMAIN slots |-> v]

slot_write(slots, t, v) == [slots EXCEPT ![t] = v]

Call(t, op, args, r) ==
    /\ LAST_ERROR' = slot_write(LAST_ERROR, t, r.err)
    /\ heap' = IF r.out.k = "buf" THEN heap \cup {r.out.addr} ELSE heap
    /\ held' = IF r.out.k = "buf" THEN held \cup {r.out.addr} ELSE held
    /\ last' = [op |-> op, thread |-> t, args |-> args, status |-> r.status,
                out |-> r.out, value |-> r.value, recorded |-> r.recorded]
    /\ UNCHANGED <<splitVars, probe>>

CanCall == Cardinality(held) < MaxLive

ExtractText(t) ==
    /\ CanCall
    /\ \E pdf \in PdfArgs, o \in StringOuts, a \in into_raw_addrs(heap) :
          LET args == Args(pdf, 0, NoOptions, o)
          IN Call(t, "oxidize_extract_text", args,
                  oxidize_extract_text(args, LAST_ERROR[t], a))

ExtractChunks(t) ==
    /\ CanCall
    /\ \E pdf \in PdfArgs, op \in AbiOptions, o \in StringOuts,
          a \in into_raw_addrs(heap) :
          LET args == Args(pdf, 0, op, o)
          IN Call(t, "oxidize_extract_chunks", args,
                  oxidize_extract_chunks(args, LAST_ERROR[t], a))

GetPageCount(t) ==
    /\ CanCall
    /\ \E pdf \in PdfArgs, o \in CountOuts, a \in into_raw_addrs(heap) :
          LET args == Args(pdf, 0, NoOptions, o)
          IN Call(t, "oxidize_get_page_count", args,
                  oxidize_get_page_count(args, LAST_ERROR[t], a))

ExtractTextFromPage(t) ==
    /\ CanCall
    /\ \E pdf \in PdfArgs, pn \in PageNumbers, o \in StringOuts,
          a \in into_raw_addrs(heap) :
          LET args == Args(pdf, pn, NoOptions, o)
          IN Call(t, "oxidize_extract_text_from_page", args,
                  oxidize_extract_text_from_page(args, LAST_ERROR[t], a))

ExtractChunksFromPage(t) ==
    /\ CanCall
    /\ \E pdf \in PdfArgs, pn \in PageNumbers, op \in AbiOptions,
          o \in StringOuts, a \in into_raw_addrs(heap) :
          LET args == Args(pdf, pn, op, o)
          IN Call(t, "oxidize_extract_chunks_from_page", args,
                  oxidize_extract_chunks_from_page(args, LAST_ERROR[t], a))

Version(t) ==
    /\ CanCall
    /\ \E o \in StringOuts, a \in into_raw_addrs(heap) :
          LET args == Args(NoPdf, 0, NoOptions, o)
          IN Call(t, "oxidize_version", args,
                  oxidize_version(args, LAST_ERROR[t], a))

GetLastError(t) ==
    /\ CanCall
    /\ \E o \in StringOuts, a \in into_raw_addrs(heap) :
          LET args == Args(NoPdf, 0, NoOptions, o)
          IN Call(t, "oxidize_get_last_error", args,
                  oxidize_get_last_error(args, LAST_ERROR[t], a))

\* oxidize_free_string(ptr): the caller passes null or a handle it holds
\* and has not released (the function's safety contract)
FreeString(t) ==
    \E p \in {Null} \cup {Buf(a) : a \in held} :
        /\ heap' = IF p.k = "null" THEN heap ELSE from_raw(heap, p.addr)
        /\ held' = IF p.k = "null" THEN held ELSE held \ {p.addr}
        /\ last' = [op |-> "oxidize_free_string", thread |-> t,
                    args |-> [out_ptr |-> "none", ptr |-> p],
                    status |-> "none", out |-> Absent, value |-> None,
                    recorded |-> FALSE]
        /\ UNCHANGED <<LAST_ERROR, splitVars, probe>>

\* Spec has one calling thread; LAST_ERROR has a slot for every thread
Callers == {"t1"}

Next ==
    \E t \in Callers :
        \/ ExtractText(t)
        \/ ExtractChunks(t)
        \/ GetPageCount(t)
        \/ ExtractTextFromPage(t)
        \/ ExtractChunksFromPage(t)
        \/ Version(t)
        \/ GetLastError(t)
        \/ FreeString(t)

Spec == Init /\ [][Next]_vars

\* -------------------------------------------- properties of the FFI protocol
PdfOps == {"oxidize_extract_text", "oxidize_extract_chunks",
           "oxidize_get_page_count", "oxidize_extract_text_from_page",
           "oxidize_extract_chunks_from_page"}
PageOps == {"oxidize_extract_text_from_page",
            "oxidize_extract_chunks_from_page"}
ClearingOps == PdfOps \cup {"oxidize_version"}
PointerOps == ClearingOps \cup {"oxidize_get_last_error"}
StringOps == PointerOps \ {"oxidize_get_page_count"}
NullArg(r) == r.args.pdf.ptr = "null" \/ r.args.out_ptr = "null"
Sentinel(r) == IF r.op = "oxidize_get_page_count" THEN Count(0) ELSE Null

\* C4: a call of a pointer-taking entry point with a null required pointer
\* returns NullPointer, leaves the output location (if there is one) as it
\* was and allocates nothing.
C4_NullPointerRejected ==
    [][(last'.op \in PointerOps /\ NullArg(last'))
         => /\ last'.status = "NullPointer"
            /\ last'.out = last'.args.prior
            /\ heap' = heap
            /\ held' = held]_vars

\* C4 witness: a call with null input bytes and a valid output location
\* holding a stale value was rejected while a buffer was live
C4_Witness ==
    /\ last.op \in PdfOps
    /\ last.args.pdf.ptr = "null"
    /\ last.args.out_ptr = "valid"
    /\ last.args.prior = Stale
    /\ last.status = "NullPointer"
    /\ heap # {}

\* C5 as stated: after every non-Success return the output location holds
\* its empty sentinel whatever it held before, and it holds a buffer only
\* after Success.
C5_Original ==
    (last.op \in PointerOps /\ last.args.out_ptr = "valid")
        => /\ last.status # "Success" => last.out = Sentinel(last)
           /\ last.out.k = "buf" => last.status = "Success"

\* C5 amended: after a return other than Success and NullPointer the output
\* location holds its empty sentinel whatever it held before; after
\* NullPointer it holds what it held before the call; it holds a buffer
\* only after Success.
C5_Amended ==
    (last.op \in PointerOps /\ last.args.out_ptr = "valid")
        => /\ last.status \notin {"Success", "NullPointer"}
                 => last.out = Sentinel(last)
           /\ last.status = "NullPointer" => last.out = last.args.prior
           /\ last.out.k = "buf" => last.status = "Success"

\* C5 witness: a call that failed after the null checks on a location that
\* held a stale value
C5_Witness ==
    /\ last.op \in PdfOps
    /\ last.args.out_ptr = "valid"
    /\ last.args.prior = Stale
    /\ last.status \in {"PdfParseError", "InvalidUtf8"}
    /\ last.out = Sentinel(last)

\* C6: a page-scoped call with non-null pointers and a non-empty payload
\* fails with PdfParseError, a null output and a recorded page diagnostic
\* when page_number is 0 or exceeds the page count; for page_number in
\* [1, page count] it is not rejected and serves page index page_number - 1.
PageDiagnostics == {Msg("Page number must be >= 1 (1-based indexing)", <<>>),
                    Msg("Page number is out of range", <<>>)}
C6_PageRange ==
    (last.op \in PageOps /\ ~NullArg(last) /\ last.args.pdf.len > 0)
        => LET pn == last.args.page_number
               doc == last.args.pdf.doc
           IN /\ (pn = 0 \/ (doc.stage = "ok" /\ pn > Len(doc.pages)))
                    => /\ last.status = "PdfParseError"
                       /\ last.out = Null
                       /\ last.recorded
                       /\ LAST_ERROR[last.thread] \in PageDiagnostics
              /\ (doc.stage = "ok" /\ pn \in 1..Len(doc.pages))
                    => /\ last.status \in {"Success", "InvalidUtf8"}
                       /\ last.status = "InvalidUtf8"
                             <=> /\ last.op = "oxidize_extract_text_from_page"
                                 /\ 0 \in Range(doc.pages[pn])
                       /\ (last.status = "Success"
                             /\ last.op = "oxidize_extract_text_from_page")
                             => last.value = [str |-> doc.pages[pn]]
                       /\ (last.status = "Success"
                             /\ last.op = "oxidize_extract_chunks_from_page")
                             => last.value =
                                  [json |-> split_page(doc.pages[pn],
                                      read_options(last.args.options),
                                      pn, 0, <<>>, 0).chunks]

\* C6 witness: page 2 of a two-page document was chunked successfully
C6_Witness ==
    /\ last.op = "oxidize_extract_chunks_from_page"
    /\ last.args.page_number = 2
    /\ last.args.pdf.doc.stage = "ok"
    /\ Len(last.args.pdf.doc.pages) = 2
    /\ last.status = "Success"
    /\ last.value.json # <<>>

\* C7: after a Success return of any of the six entry points the calling
\* thread's slot is empty (each of them cleared it on entry).
C7_ClearedOnEntry ==
    (last.op \in ClearingOps /\ last.status = "Success")
        => LAST_ERROR[last.thread] = None

\* C8: a call of a fallible entry point that does not return Success has
\* recorded a diagnostic, which is in the calling thread's slot.
C8_FailureLeavesDiagnostic ==
    (last.op \in PointerOps /\ last.status # "Success")
        => /\ last.recorded
           /\ LAST_ERROR[last.thread] # None

\* C9: oxidize_get_last_error and oxidize_free_string leave every slot as it
\* is; two consecutive oxidize_get_last_error calls on a thread return the
\* same status and message, the second in a buffer that was not live; with
\* nothing recorded the call returns Success and null.
IsGet(r) == r.op = "oxidize_get_last_error" /\ r.args.out_ptr = "valid"
C9_AccessorKeepsSlot ==
    [][/\ last'.op \in {"oxidize_get_last_error", "oxidize_free_string"}
            => LAST_ERROR' = LAST_ERROR
       /\ (IsGet(last) /\ IsGet(last') /\ last'.thread = last.thread)
            => /\ last'.status = last.status
               /\ last'.value = last.value
               /\ last'.out.k = "buf" => last'.out.addr \notin heap
       /\ (IsGet(last') /\ LAST_ERROR[last'.thread] = None)
            => last'.status = "Success" /\ last'.out = Null]_vars

\* C9 witness: the second of two consecutive reads returned the recorded
\* message while the buffer of the first read was still live
C9_Witness ==
    /\ IsGet(last)
    /\ last.status = "Success"
    /\ last.value # None
    /\ Cardinality(heap) = 2

\* C10: a Success return of a string-producing entry point (with a message
\* to return) adds exactly one buffer that was not live and hands it to the
\* caller; every other call leaves the heap as it is; releasing null changes
\* nothing and releasing a handle frees exactly that buffer; the live
\* buffers are always exactly the handles the caller has not yet released.
Produces(r) ==
    /\ r.op \in StringOps
    /\ r.status = "Success"
    /\ ~(r.op = "oxidize_get_last_error" /\ r.value = None)
C10_BufferOwnership ==
    /\ [](heap = held)
    /\ [][/\ (last'.op \in PointerOps /\ Produces(last'))
               => /\ last'.out.k = "buf"
                  /\ last'.out.addr \notin heap
                  /\ heap' = heap \cup {last'.out.addr}
          /\ (last'.op \in PointerOps /\ ~Produces(last'))
               => /\ heap' = heap
                  /\ last'.out.k # "buf"
          /\ (last'.op = "oxidize_free_string" /\ last'.args.ptr = Null)
               => heap' = heap /\ LAST_ERROR' = LAST_ERROR
          /\ (last'.op = "oxidize_free_string" /\ last'.args.ptr # Null)
               => heap' = heap \ {last'.args.ptr.addr}]_vars

\* C10 witness: the caller received two buffers and has released both
C10_Witness ==
    /\ last.op = "oxidize_free_string"
    /\ last.args.ptr # Null
    /\ held = {}
    /\ heap = {}

\* ------------------------------------------------- calls on several threads
\* Calls of entry points interleaved on all threads (a call is atomic: it
\* runs on its thread from entry to return and touches only that thread's
\* cell).  The entry points that parse a document all use the cell in the
\* same way; two of them stand for the five here.
NextThreads ==
    \E t \in Threads :
        \/ ExtractText(t)
        \/ GetPageCount(t)
        \/ Version(t)
        \/ GetLastError(t)
        \/ FreeString(t)

SpecThreads == Init /\ [][NextThreads]_vars

\* C11: a call on one thread leaves the slot of every other thread as it
\* is, and oxidize_get_last_error hands out exactly the content of the
\* calling thread's own slot (a message only if that slot holds one), so a
\* thread only ever reads what a call on that thread recorded.
C11_SlotPerThread ==
    [][/\ \A u \in Threads \ {last'.thread} : LAST_ERROR'[u] = LAST_ERROR[u]
       /\ (IsGet(last') /\ last'.status = "Success")
            => /\ last'.value = LAST_ERROR[last'.thread]
               /\ last'.out.k = "buf" <=> LAST_ERROR[last'.thread] # None]_vars

\* C11 witness: a thread reads its empty slot (Success, null) while the
\* other thread's slot holds a diagnostic, and the other way round
C11_Witness ==
    /\ IsGet(last)
    /\ last.thread = "t2"
    /\ last.status = "Success"
    /\ last.out = Null
    /\ LAST_ERROR["t2"] = None
    /\ LAST_ERROR["t1"] # None

\* ------------------------------------------------ find_char_boundary alone
\* find_char_boundary applied once, to any text and any index up to two
\* past the end of the text
ProbeTexts == {Encode(cs) : cs \in CharSeqs}

FindCharBoundary ==
    /\ ~probe.applied
    /\ \E s \in ProbeTexts : \E index \in 0..(Len(s) + 2) :
          probe' = [s |-> s, index |-> index,
                    result |-> find_char_boundary(s, index),
                    applied |-> TRUE]
    /\ UNCHANGED <<splitVars, abiVars>>

NextBoundary == FindCharBoundary

SpecBoundary == Init /\ [][NextBoundary]_vars

\* The character boundaries of a text, from the lengths its lead bytes
\* announce: 0, the end of every character, hence also Len(s)
Utf8Len(b) ==
    IF b < 128 THEN 1 ELSE IF b >= 240 THEN 4 ELSE IF b >= 224 THEN 3 ELSE 2
RECURSIVE BoundariesFrom(_, _)
BoundariesFrom(s, i) ==
    IF i >= Len(s) THEN {Len(s)}
    ELSE {i} \cup BoundariesFrom(s, i + Utf8Len(s[i + 1]))
Boundaries(s) == BoundariesFrom(s, 0)
\* the smallest boundary at or after i (i <= Len(s))
BoundaryAtOrAfter(s, i) ==
    CHOOSE b \in Boundaries(s) :
        b >= i /\ \A c \in Boundaries(s) : c >= i => b <= c

\* C12: find_char_boundary(text, index) is length(text) when index >=
\* length(text); for index in [0, length(text)] it is the smallest character
\* boundary b with index <= b <= length(text).
C12_BoundaryFinder ==
    probe.applied
        => /\ probe.index >= Len(probe.s) => probe.result = Len(probe.s)
           /\ probe.index <= Len(probe.s)
                 => /\ probe.result = BoundaryAtOrAfter(probe.s, probe.index)
                    /\ probe.result >= probe.index
                    /\ probe.result <= Len(probe.s)
                    /\ probe.result \in Boundaries(probe.s)

\* C12 witness: an index on the second byte of a three-byte character that
\* is not the last character: the result is two bytes further and inside
\* the text
C12_Witness ==
    /\ probe.applied
    /\ probe.result = probe.index + 2
    /\ probe.result < Len(probe.s)

\* ------------------------------------- more properties of the splitting loop
\* the window the k-th chunk was cut from (chunks are pushed in window order)
NthEmitted(k) ==
    CHOOSE i \in EmittedWindows :
        Cardinality({j \in EmittedWindows : j <= i}) = k
\* page index p (0-based) has been split to the end
Finished(p) ==
    IF entry = "all"
    THEN p < page_num \/ pc = "done"
    ELSE pc = "done" /\ p = page_number - 1
WindowsOn(p) == {i \in 1..Len(windows) : windows[i].page = p}
IsAscii(s) == \A i \in 1..Len(s) : s[i] < 128
\* t is s without its leading and trailing whitespace
IsTrimOf(t, s) ==
    /\ ~HasLeadingWhiteSpace(t)
    /\ ~HasTrailingWhiteSpace(t)
    /\ \E a \in 0..Len(s) : \E b \in a..Len(s) :
          /\ Slice(s, a, b) = t
          /\ IsBlank(Slice(s, 0, a))
          /\ IsBlank(Slice(s, b, Len(s)))

\* C13: in whole-document chunking every chunk's page_number is in [1, N],
\* is the 1-based index of the page its text was sliced from and never
\* decreases along the list; in page-scoped chunking every chunk carries the
\* requested page_number, the page it was sliced from.
C13_PageNumbers ==
    /\ Len(chunks) = Cardinality(EmittedWindows)
    /\ \A k \in 1..Len(chunks) :
          /\ chunks[k].page_number = windows[NthEmitted(k)].page + 1
          /\ chunks[k].page_number \in 1..Len(text_pages)
          /\ entry = "page" => chunks[k].page_number = page_number
          /\ k < Len(chunks)
                => chunks[k].page_number <= chunks[k + 1].page_number

\* C13 witness: a whole-document call with two chunks from page 1 followed
\* by a chunk from page 2
C13_Witness ==
    /\ pc = "done"
    /\ entry = "all"
    /\ Len(chunks) = 3
    /\ chunks[1].page_number = 1
    /\ chunks[2].page_number = 1
    /\ chunks[3].page_number = 2

\* C15: with max_chunk_size = 0 the first iteration on a page takes an
\* empty window, pushes nothing and leaves the page's loop by the progress
\* guard; the configuration is not rejected and the loop never repeats.
C15_ZeroSizeTerminates ==
    [][(pc = "while" /\ chunk_opts.max_chunk_size = 0)
         => /\ pc' \in {"for", "done"}
            /\ chunks' = chunks]_vars

\* C15 witness: a whole-document call with max_chunk_size = 0 that went
\* through two non-empty pages, one iteration each
C15_Witness ==
    /\ pc = "done"
    /\ chunk_opts.max_chunk_size = 0
    /\ Len(windows) = 2
    /\ windows[1].page # windows[2].page
    /\ windows[1].chunk_end = 0
    /\ chunks = <<>>

\* C16: a page shorter than max_chunk_size whose text is not blank gives
\* exactly one window, the whole page, and exactly one chunk, whose text is
\* the page text trimmed.
C16_ShortPageOneChunk ==
    \A p \in 0..(Len(text_pages) - 1) :
        LET s == text_pages[p + 1]
        IN (Finished(p) /\ Len(s) < chunk_opts.max_chunk_size /\ ~IsBlank(s))
              => /\ Cardinality(WindowsOn(p)) = 1
                 /\ \A i \in WindowsOn(p) :
                       /\ windows[i].start = 0
                       /\ windows[i].chunk_end = Len(s)
                       /\ windows[i].emitted
                       /\ IsTrimOf(windows[i].text, s)
                       /\ \E k \in 1..Len(chunks) :
                             /\ NthEmitted(k) = i
                             /\ chunks[k].text = windows[i].text

\* C16 witness: a page shorter than a max_chunk_size of at most MaxChunk,
\* with sentence search on, gave one chunk shorter than the page (trimmed
\* at its end)
C16_Witness ==
    /\ pc = "done"
    /\ entry = "page"
    /\ chunk_opts.preserve_sentence_boundaries
    /\ chunk_opts.max_chunk_size <= MaxChunk
    /\ Len(text_pages[page_number]) < chunk_opts.max_chunk_size
    /\ Len(chunks) = 1
    /\ Len(chunks[1].text) < Len(text_pages[page_number])
    /\ HasTrailingWhiteSpace(text_pages[page_number])

\* C18 as stated: the byte length of every slice is at most max_chunk_size.
C18_Original ==
    \A i \in 1..Len(windows) :
        windows[i].chunk_end - windows[i].start <= chunk_opts.max_chunk_size

\* C18 amended: every slice ends no later than the first character boundary
\* at or after start + max_chunk_size (or the end of the page), so its byte
\* length is at most max_chunk_size + 3, and at most max_chunk_size on a
\* page of ASCII text; the sentence search never moves the end forward.
C18_Amended ==
    \A i \in 1..Len(windows) :
        LET w == windows[i]
            s == PageOf(w)
            cap == IF w.start + chunk_opts.max_chunk_size <= Len(s)
                   THEN w.start + chunk_opts.max_chunk_size ELSE Len(s)
        IN /\ w.chunk_end <= w.end
           /\ w.end = BoundaryAtOrAfter(s, cap)
           /\ w.chunk_end - w.start <= chunk_opts.max_chunk_size + 3
           /\ IsAscii(s) => w.chunk_end - w.start <= chunk_opts.max_chunk_size

\* C18 witness: a slice longer than max_chunk_size > 0 (its end was moved
\* forward to the end of a multi-byte character) in a loop that went on
C18_Witness ==
    /\ chunk_opts.max_chunk_size > 0
    /\ \E i \in 1..Len(windows) :
          /\ windows[i].chunk_end - windows[i].start > chunk_opts.max_chunk_size
          /\ i < Len(windows)
          /\ windows[i + 1].page = windows[i].page

\* C19: on one page the window after a window ending at chunk_end is
\* entered with byte_start = chunk_end - overlap (0 if overlap is larger)
\* and starts at the first character boundary at or after it; it starts at
\* or before the previous window's end and not before the previous window's
\* start.  The first window of a page is entered with byte_start = 0.
C19_NextWindowStart ==
    \A i \in 1..Len(windows) :
        LET w == windows[i]
            s == PageOf(w)
        IN /\ w.start = BoundaryAtOrAfter(s, w.from)
           /\ IF i > 1 /\ windows[i - 1].page = w.page
              THEN LET v == windows[i - 1]
                   IN /\ w.from = (IF v.chunk_end >= chunk_opts.overlap
                                   THEN v.chunk_end - chunk_opts.overlap
                                   ELSE 0)
                      /\ w.start <= v.chunk_end
                      /\ w.start >= v.start
              ELSE w.from = 0

\* C19 witness: a following window entered inside a multi-byte character,
\* started at the next boundary, still before the previous window's end
C19_Witness ==
    \E i \in 2..Len(windows) :
        /\ windows[i - 1].page = windows[i].page
        /\ windows[i].start > windows[i].from
        /\ windows[i].start < windows[i - 1].chunk_end

\* ------------------------------------------ the splitting loop on long pages
\* Pages long enough for the sentence search to have a range of several
\* bytes.  LongPage(p, c): 600 ASCII bytes, all 'a' but the sentence-end
\* character c at byte offset p.  MediumPage(x, y, z): "aaa", the three
\* characters x, y, z, then "aa".  The offsets p lie around the start of
\* the first search range (byte 409) and around the size limit (byte 512).
LongPage(p, c) == [i \in 1..600 |-> IF i = p + 1 THEN c ELSE 97]
MediumChars == {<<97>>, <<46>>, <<33>>, <<63>>, <<32>>, <<226, 130, 172>>}
MediumPage(x, y, z) == <<97, 97, 97>> \o x \o y \o z \o <<97, 97>>

LongInputs ==
    {[doc |-> <<LongPage(p, c)>>, opts |-> o] :
        p \in (405..415) \cup (495..515), c \in SentenceEnd,
        o \in {DefaultOptions,
               [DefaultOptions EXCEPT !.preserve_sentence_boundaries = FALSE]}}
    \cup {[doc |-> <<LongPage(500, 46), <<>>>>, opts |-> DefaultOptions]}
    \cup {[doc |-> <<MediumPage(x, y, z)>>,
           opts |-> [max_chunk_size |-> 6, overlap |-> ov,
                     preserve_sentence_boundaries |-> b,
                     include_metadata |-> TRUE]] :
            x \in MediumChars, y \in MediumChars, z \in MediumChars,
            ov \in {0, 2}, b \in BOOLEAN}

\* oxidize_extract_chunks reaches its loop with a long page
CallAllLong ==
    /\ pc = "start"
    /\ \E in \in LongInputs :
          /\ text_pages' = in.doc
          /\ chunk_opts' = in.opts
    /\ entry' = "all"
    /\ pc' = "for"
    /\ UNCHANGED <<page_number, page_num, byte_start, chunks, chunk_index,
                   windows, abiVars, probe>>

\* oxidize_extract_chunks_from_page reaches its loop with a long page
CallPageLong ==
    /\ pc = "start"
    /\ \E in \in LongInputs :
          /\ text_pages' = in.doc
          /\ chunk_opts' = in.opts
    /\ entry' = "page"
    /\ page_number' \in 1..Len(text_pages')
    /\ page_num' = page_number' - 1
    /\ pc' = "while"
    /\ UNCHANGED <<byte_start, chunks, chunk_index, windows, abiVars, probe>>

NextLong ==
    CallAllLong \/ CallPageLong \/ ForPage \/ ForEnd \/ WhileExit \/ WhileBody

SpecLong == Init /\ [][NextLong]_vars

\* C14: with the default configuration (512, 50, sentence search on) and a
\* page of 600 ASCII bytes whose only sentence-end character is a period at
\* byte 500, the first window is [0, 501) although the size limit is at
\* byte 512, and the second window is [451, 600), the last one.
IsScenario ==
    /\ Len(text_pages) >= 1
    /\ text_pages[1] = LongPage(500, 46)
    /\ chunk_opts = DefaultOptions
C14_Scenario ==
    IsScenario
        => /\ \A i \in WindowsOn(0) : i <= 2
           /\ (Len(windows) >= 1 /\ windows[1].page = 0)
                 => /\ windows[1].start = 0
                    /\ windows[1].end = 512
                    /\ windows[1].chunk_end = 501
                    /\ Len(windows[1].text) = 501
           /\ (Len(windows) >= 2 /\ windows[2].page = 0)
                 => /\ windows[2].start = 451
                    /\ windows[2].chunk_end = 600
                    /\ Len(windows[2].text) = 149
           /\ Finished(0) => WindowsOn(0) = {1, 2} /\ Len(chunks) = 2

\* C14 witness: the scenario run to its end by the whole-document entry
C14_Witness ==
    /\ IsScenario
    /\ entry = "all"
    /\ pc = "done"
    /\ Len(windows) = 2

\* C20: with sentence search on and a window end before the end of the
\* page, the slice ends right after the last '.', '!' or '?' in
\* [search_start, end), search_start being the boundary at or after
\* start + min(max_chunk_size * 4 / 5, end - start); with no such character
\* there (also when search_start >= end), with sentence search off, or with
\* the window reaching the end of the page, it ends at end.
\* byte offsets where a character of s ends or starts, from the lengths the
\* lead bytes announce, without recursion (pages of hundreds of bytes)
CharEdges(s) ==
    {0} \cup {k + Utf8Len(s[k + 1]) :
                 k \in {n \in 0..(Len(s) - 1) :
                           s[n + 1] < 128 \/ s[n + 1] >= 192}}
SearchRange(w, s) ==
    IF chunk_opts.preserve_sentence_boundaries /\ w.end < Len(s)
    THEN LET fifth == (chunk_opts.max_chunk_size * 4) \div 5
             width == w.end - w.start
             raw == w.start + (IF fifth <= width THEN fifth ELSE width)
             after == {b \in CharEdges(s) : b >= raw}
             from == CHOOSE b \in after : \A c \in after : b <= c
         IN {j \in from..(w.end - 1) : s[j + 1] \in {46, 33, 63}}
    ELSE {}
C20_SentenceAwareEnd ==
    \A i \in 1..Len(windows) :
        LET w == windows[i]
            marks == SearchRange(w, PageOf(w))
        IN IF marks = {}
           THEN w.chunk_end = w.end
           ELSE /\ w.chunk_end - 1 \in marks
                /\ \A j \in marks : j <= w.chunk_end - 1

\* C20 witness: a window with two different sentence-end characters in its
\* search range and a third one before the range
C20_Witness ==
    \E i \in 1..Len(windows) :
        LET w == windows[i]
            s == PageOf(w)
            marks == SearchRange(w, s)
        IN /\ Cardinality(marks) = 2
           /\ Cardinality({s[j + 1] : j \in marks}) = 2
           /\ \E j \in w.start..(w.end - 1) :
                 j \notin marks /\ s[j + 1] \in {46, 33, 63}

\* ------------------------------------------------------------ empty pages
\* C17: a chunk extraction over a parsable document with empty pages
\* succeeds; the list has no chunk of an empty page (it is empty when every
\* page asked for is empty), and an empty page does not advance the index:
\* indices and texts are those of the document without its empty pages.
ChunkOps == {"oxidize_extract_chunks", "oxidize_extract_chunks_from_page"}
EmptyPages(pages) == {p \in 1..Len(pages) : pages[p] = <<>>}
PagesAsked(r) ==
    IF r.op = "oxidize_extract_chunks"
    THEN 1..Len(r.args.pdf.doc.pages)
    ELSE {r.args.page_number}
IndexAndText(cs) ==
    [i \in 1..Len(cs) |-> [index |-> cs[i].index, text |-> cs[i].text]]
ChunksEmptyPages(r) ==
    /\ r.op \in ChunkOps
    /\ ~NullArg(r)
    /\ r.args.pdf.len > 0
    /\ r.args.pdf.doc.stage = "ok"
    /\ PagesAsked(r) \subseteq 1..Len(r.args.pdf.doc.pages)
    /\ EmptyPages(r.args.pdf.doc.pages) \cap PagesAsked(r) # {}
C17_EmptyPageNoChunks ==
    ChunksEmptyPages(last)
        => LET pages == last.args.pdf.doc.pages
               filled == SelectSeq(pages, LAMBDA t : t # <<>>)
           IN /\ last.status = "Success"
              /\ last.out.k = "buf"
              /\ \A i \in 1..Len(last.value.json) :
                    /\ last.value.json[i].page_number \notin EmptyPages(pages)
                    /\ last.value.json[i].index = i - 1
              /\ PagesAsked(last) \subseteq EmptyPages(pages)
                    => last.value.json = <<>>
              /\ last.op = "oxidize_extract_chunks"
                    => IndexAndText(last.value.json)
                         = IndexAndText(split_all(filled,
                               read_options(last.args.options),
                               0, <<>>, 0).chunks)

\* C17 witness: a whole-document extraction whose first page is empty and
\* whose second page gave chunks, the first of them with index 0
C17_Witness ==
    /\ ChunksEmptyPages(last)
    /\ last.op = "oxidize_extract_chunks"
    /\ last.args.pdf.doc.pages[1] = <<>>
    /\ last.status = "Success"
    /\ Len(last.value.json) >= 2
    /\ last.value.json[1] = DocumentChunk(0, 2, <<97, 46>>)

\* ------------------------------------------------- coverage of a page
\* C21: with max_chunk_size > 0 and overlap <= max_chunk_size * 4 / 5 the
\* loop of a page ends only with a window that reaches the end of the page:
\* the first window starts at byte 0, every later window starts at or
\* before the end of the one before it, the last one ends at the page
\* length, and the windows [start, chunk_end) together are [0, length).
SmallOverlap ==
    /\ chunk_opts.max_chunk_size > 0
    /\ chunk_opts.overlap <= (chunk_opts.max_chunk_size * 4) \div 5
Covered(p) ==
    UNION {windows[i].start..(windows[i].chunk_end - 1) : i \in WindowsOn(p)}
C21_FullCoverage ==
    SmallOverlap
        => \A p \in 0..(Len(text_pages) - 1) :
              LET len == Len(text_pages[p + 1])
                  on == WindowsOn(p)
              IN /\ \A i \in on :
                       /\ (i - 1 \notin on) => windows[i].start = 0
                       /\ (i - 1 \in on)
                             => /\ windows[i].start <= windows[i - 1].chunk_end
                                /\ windows[i - 1].chunk_end < len
                 /\ Finished(p)
                       => /\ Covered(p) = 0..(len - 1)
                          /\ len > 0
                                => /\ on # {}
                                   /\ windows[SetMax(on)].chunk_end = len

\* C21 witness: a page split to its end in at least two windows with a
\* positive overlap, the second window starting inside the first
C21_Witness ==
    /\ SmallOverlap
    /\ chunk_opts.overlap > 0
    /\ \E p \in 0..(Len(text_pages) - 1) :
          /\ Finished(p)
          /\ \E i \in WindowsOn(p) :
                /\ i - 1 \in WindowsOn(p)
                /\ windows[i].start < windows[i - 1].chunk_end
                /\ windows[i].chunk_end = Len(text_pages[p + 1])

\* ------------------------------------- the two chunking entry points agree
\* C22: for every document, configuration and page p in [1, page count],
\* the chunks of oxidize_extract_chunks_from_page(p) have, in order, the
\* texts of the chunks with page_number = p of oxidize_extract_chunks, and
\* each index differs by the number of chunks of the pages before p.  A
\* finished run of either entry point is compared with the result of the
\* other one on the same document and options.
OnPage(cs, p) == SelectSeq(cs, LAMBDA c : c.page_number = p)
Before(cs, p) == Cardinality({i \in 1..Len(cs) : cs[i].page_number < p})
\* single is the list of the page-scoped call for page p, whole the list of
\* the whole-document call
Agree(single, whole, p) ==
    LET mine == OnPage(whole, p)
    IN /\ Len(single) = Len(mine)
       /\ \A i \in 1..Len(single) :
             /\ single[i].text = mine[i].text
             /\ single[i].page_number = p
             /\ single[i].index = i - 1
             /\ mine[i].index = single[i].index + Before(whole, p)
C22_EntryPointsAgree ==
    /\ (pc = "done" /\ entry = "page")
          => LET r == split_all(text_pages, chunk_opts, 0, <<>>, 0)
             IN ~r.panic /\ Agree(chunks, r.chunks, page_number)
    /\ (pc = "done" /\ entry = "all")
          => \A p \in 1..Len(text_pages) :
                LET r == split_page(text_pages[p], chunk_opts, p, 0, <<>>, 0)
                IN ~r.panic /\ Agree(r.chunks, chunks, p)

\* C22 witness: the page-scoped entry point has split page 2 into chunks
\* and page 1 of the same document gives chunks too, so the indices of the
\* whole-document call are shifted
C22_Witness ==
    /\ pc = "done"
    /\ entry = "page"
    /\ page_number = 2
    /\ chunks # <<>>
    /\ Before(split_all(text_pages, chunk_opts, 0, <<>>, 0).chunks, 2) > 0
====
